---- MODULE Spec2Model ----
(***************************************************************************)
(* State-machine model of the GestureRecognition camera widget             *)
(* (src/components/UploadImage.tsx): React state (prediction, isCameraOn,  *)
(* mode), the video element behind videoRef, the camera streams obtained   *)
(* by getUserMedia, the 100 ms attach timers, the 1 s capture interval,    *)
(* the canvas.toBlob callbacks and the POST requests in flight.            *)
(*                                                                         *)
(* Scheduling.  A state update made in a click handler (closeCamera,       *)
(* setMode) is rendered synchronously at the end of the click, together    *)
(* with its passive effects.  An update made by a promise continuation     *)
(* (setIsCameraOn(true) after the await of startCamera, setPrediction      *)
(* after response.json()) is only queued; React renders it in a later task *)
(* (Render) and runs the interval effect of that render in a task after    *)
(* that (FlushEffects).  Effects still pending are run before any new      *)
(* render starts.  An unmount is committed first (refs detached) and its   *)
(* effect cleanups run in a later task (UnmountCleanup).  Timers, clicks   *)
(* and network callbacks can run between any two of these tasks.           *)
(*                                                                         *)
(* Two points depend on the React version and on React's internal fiber    *)
(* state, neither of which the sources fix, so every outcome is modelled:  *)
(*  - unifiedLanes: whether the render of a click also commits the updates *)
(*    queued by promise continuations, or leaves them for their own render *)
(*    (chosen once, in Init);                                              *)
(*  - eager: whether a setState call with the value the state already has, *)
(*    made while nothing is queued, is dropped before a render is          *)
(*    scheduled, or is queued and rendered without changing the state      *)
(*    (chosen per call).  A call with a new value, or made while other     *)
(*    updates are queued, is always queued.                                *)
(***************************************************************************)
EXTENDS Integers, Sequences, FiniteSets

\* ---- bounds of the model (not program constants) ----
MaxTicks == 2
MaxStreams == 2

\* ---- values ----
Modes == {"hand", "body"}
None == 0
HandLabels == {"", "h1"}
BodyLabels == {"", "b1"}
StreamIds == 1..MaxStreams

VARIABLES
  mounted,          \* the component is mounted (videoRef.current / canvasRef.current non-null)
  prediction,       \* useState(""): the value of the last render
  isCameraOn,       \* useState(false): the value of the last render
  mode,             \* useState("hand"): the value of the last render
  queuedOn,         \* setIsCameraOn(true) is queued and not rendered yet
  queuedPrediction, \* queued setPrediction calls not rendered yet, reduced to the
                    \* last value: <<>> or <<v>>
  pendingEffect,    \* <<>>, or <<deps>> when the interval effect of the last render
                    \* has not run yet; deps are those of the render before it
  cleanupPending,   \* the unmount is committed and the effect cleanups have not run yet
  unifiedLanes,     \* the render of a click also commits the queued updates
  srcObject,        \* videoRef.current.srcObject: a stream id or None
  live,             \* streams obtained whose tracks have not been stopped
  obtained,         \* number of streams getUserMedia has delivered
  nStart,           \* number of startCamera calls
  pendingGUM,       \* getUserMedia calls not yet settled
  attachTimers,     \* streams whose 100 ms setTimeout has not fired yet
  intervals,        \* active setInterval timers; each holds the mode its closure captured
  pendingBlobs,     \* toBlob callbacks not yet run
  inflight,         \* POST requests sent and not yet answered
  nTicks,           \* history: interval ticks fired
  nPosts,           \* history: POSTs issued
  lastEvent,        \* history: the handler or task that ran last
  lastData,         \* history: <<hand_gesture, body_pose>> of the last parsed response
  lastLabelled,     \* history: [seq, label] of the labelled response that arrived last
  newestLabelled,   \* history: largest seq among the labelled responses that arrived
  attached          \* history: stream attached by the 100 ms timer since the last closeCamera

vars == <<mounted, unifiedLanes, prediction, isCameraOn, mode, queuedOn, queuedPrediction, pendingEffect,
          cleanupPending, srcObject, live, obtained, nStart, pendingGUM, attachTimers,
          intervals, pendingBlobs, inflight, nTicks, nPosts, lastEvent, lastData,
          lastLabelled, newestLabelled, attached>>

\* ---- pure helpers ----

\* which of the two JSX trees the render returns
Layout(m, on) == IF m = "body" /\ on THEN "full" ELSE "card"

\* The <video> sits at a different position in the two trees, so a layout
\* change unmounts it and mounts a fresh element (srcObject null) behind videoRef.
SrcAfterRender(src, m0, on0, m1, on1) ==
  IF Layout(m0, on0) # Layout(m1, on1) THEN None ELSE src

\* effect cleanup: clearInterval(interval); interval is undefined when the
\* effect ran with isCameraOn false
CleanupNoClear(ivs, on0) == ivs
Cleanup(ivs, on0) ==
  IF on0 /\ Len(ivs) > 0 THEN SubSeq(ivs, 1, Len(ivs) - 1) ELSE ivs

\* dependency array of the interval effect
DepsChangedNoMode(m0, on0, m1, on1) == on0 # on1
DepsChanged(m0, on0, m1, on1) == on0 # on1 \/ m0 # m1

\* the interval effect across a re-render from (m0,on0) to (m1,on1)
IntervalEffect(ivs, m0, on0, m1, on1) ==
  IF ~DepsChanged(m0, on0, m1, on1) THEN ivs
  ELSE LET cleared == Cleanup(ivs, on0)
       IN IF on1 THEN Append(cleared, m1) ELSE cleared

\* the intervals once the effect still pending from the last render has run
Flushed ==
  IF pendingEffect = <<>> THEN intervals
  ELSE IntervalEffect(intervals, pendingEffect[1].mode, pendingEffect[1].on,
                      mode, isCameraOn)

\* an update made by a promise continuation waits for its render
UpdatesQueued == queuedOn \/ queuedPrediction # <<>>

\* setState(v) on a state whose rendered value is cur: the call is queued,
\* unless v = cur, nothing is queued and React drops the call eagerly
Enqueued(v, cur, anyQueued, eager) == v # cur \/ anyQueued \/ ~eager

\* the value prediction has once the queued setPrediction calls are rendered
NextPrediction ==
  IF queuedPrediction # <<>> THEN queuedPrediction[1] ELSE prediction

EndpointOf(m) ==
  IF m = "hand" THEN "http://localhost:8000/predict/hand/"
  ELSE "http://localhost:8000/predict/body/"

\* {prediction || "N/A"}
Rendered(p) == IF p = "" THEN "N/A" ELSE p

\* ---- initial state: after the first render ----
Init ==
  /\ mounted = TRUE
  /\ unifiedLanes \in BOOLEAN
  /\ prediction = ""
  /\ isCameraOn = FALSE
  /\ mode = "hand"
  /\ queuedOn = FALSE
  /\ queuedPrediction = <<>>
  /\ pendingEffect = <<>>
  /\ cleanupPending = FALSE
  /\ srcObject = None
  /\ live = {}
  /\ obtained = 0
  /\ nStart = 0
  /\ pendingGUM = 0
  /\ attachTimers = {}
  /\ intervals = <<>>
  /\ pendingBlobs = {}
  /\ inflight = {}
  /\ nTicks = 0
  /\ nPosts = 0
  /\ lastEvent = "init"
  /\ lastData = <<"", "">>
  /\ lastLabelled = [seq |-> 0, label |-> ""]
  /\ newestLabelled = 0
  /\ attached = None

\* ---- actions ----

\* click on "Open Camera" (rendered only while isCameraOn is false):
\* startCamera up to the await
StartCamera ==
  /\ mounted /\ ~isCameraOn
  /\ nStart < MaxStreams
  /\ nStart' = nStart + 1
  /\ pendingGUM' = pendingGUM + 1
  /\ lastEvent' = "start"
  /\ UNCHANGED <<mounted, unifiedLanes, prediction, isCameraOn, mode, queuedOn, queuedPrediction,
                 pendingEffect, cleanupPending, srcObject, live, obtained,
                 attachTimers, intervals, pendingBlobs, inflight, nTicks, nPosts,
                 lastData, lastLabelled, newestLabelled, attached>>

\* getUserMedia resolves and startCamera continues after the await:
\* setTimeout(attach, 100); setIsCameraOn(true).  The update is only queued;
\* it has no effect on an unmounted component.
GetUserMediaResolve(eager) ==
  /\ pendingGUM > 0
  /\ LET s == obtained + 1
     IN /\ obtained' = s
        /\ live' = live \cup {s}
        /\ attachTimers' = attachTimers \cup {s}
  /\ queuedOn' = (queuedOn \/ (mounted /\ Enqueued(TRUE, isCameraOn, UpdatesQueued, eager)))
  /\ pendingGUM' = pendingGUM - 1
  /\ lastEvent' = "gumResolve"
  /\ UNCHANGED <<mounted, unifiedLanes, prediction, isCameraOn, mode, queuedPrediction,
                 pendingEffect, cleanupPending, srcObject, nStart, intervals, pendingBlobs,
                 inflight, nTicks, nPosts, lastData, lastLabelled, newestLabelled, attached>>

\* getUserMedia rejects: console.error only
GetUserMediaReject ==
  /\ pendingGUM > 0
  /\ pendingGUM' = pendingGUM - 1
  /\ lastEvent' = "gumReject"
  /\ UNCHANGED <<mounted, unifiedLanes, prediction, isCameraOn, mode, queuedOn, queuedPrediction,
                 pendingEffect, cleanupPending, srcObject, live, obtained, nStart,
                 attachTimers, intervals, pendingBlobs, inflight, nTicks, nPosts,
                 lastData, lastLabelled, newestLabelled, attached>>

\* React's render task for the queued updates: effects still pending run
\* first, then the queued values become the state, the layout is committed
\* (ref re-attached) and the interval effect is left pending if its
\* dependencies changed
Render ==
  /\ mounted /\ UpdatesQueued
  /\ LET on1 == isCameraOn \/ queuedOn
     IN /\ isCameraOn' = on1
        /\ srcObject' = SrcAfterRender(srcObject, mode, isCameraOn, mode, on1)
        /\ pendingEffect' = IF DepsChanged(mode, isCameraOn, mode, on1)
                            THEN <<[mode |-> mode, on |-> isCameraOn]>>
                            ELSE <<>>
  /\ prediction' = NextPrediction
  /\ intervals' = Flushed
  /\ queuedOn' = FALSE
  /\ queuedPrediction' = <<>>
  /\ lastEvent' = "render"
  /\ UNCHANGED <<mounted, unifiedLanes, mode, cleanupPending, live, obtained, nStart,
                 pendingGUM, attachTimers, pendingBlobs, inflight, nTicks, nPosts,
                 lastData, lastLabelled, newestLabelled, attached>>

\* React's task for the passive effects of the last render: the interval effect
FlushEffects ==
  /\ pendingEffect # <<>>
  /\ intervals' = Flushed
  /\ pendingEffect' = <<>>
  /\ lastEvent' = "effects"
  /\ UNCHANGED <<mounted, unifiedLanes, prediction, isCameraOn, mode, queuedOn, queuedPrediction,
                 cleanupPending, srcObject, live, obtained, nStart, pendingGUM,
                 attachTimers, pendingBlobs, inflight, nTicks, nPosts,
                 lastData, lastLabelled, newestLabelled, attached>>

\* the 100 ms timer fires: videoRef.current.srcObject = stream, if the ref is set
AttachTimer(s) ==
  /\ s \in attachTimers
  /\ attachTimers' = attachTimers \ {s}
  /\ srcObject' = IF mounted THEN s ELSE srcObject
  /\ attached' = IF mounted THEN s ELSE attached
  /\ lastEvent' = "attach"
  /\ UNCHANGED <<mounted, unifiedLanes, prediction, isCameraOn, mode, queuedOn, queuedPrediction,
                 pendingEffect, cleanupPending, live, obtained, nStart, pendingGUM,
                 intervals, pendingBlobs, inflight, nTicks, nPosts,
                 lastData, lastLabelled, newestLabelled>>

\* click on "Close Camera" (rendered only while isCameraOn is true):
\* closeCamera, then the synchronous render of setIsCameraOn(false) with its
\* effects (effects still pending run first).  A queued setIsCameraOn(true)
\* precedes the false in the update queue, so false is the result.
CloseCamera ==
  /\ mounted /\ isCameraOn
  /\ live' = IF srcObject # None THEN live \ {srcObject} ELSE live
  /\ isCameraOn' = FALSE
  /\ queuedOn' = FALSE
  /\ prediction' = IF unifiedLanes THEN NextPrediction ELSE prediction
  /\ queuedPrediction' = IF unifiedLanes THEN <<>> ELSE queuedPrediction
  /\ srcObject' = SrcAfterRender(None, mode, isCameraOn, mode, FALSE)
  /\ intervals' = IntervalEffect(Flushed, mode, isCameraOn, mode, FALSE)
  /\ pendingEffect' = <<>>
  /\ attached' = None
  /\ lastEvent' = "close"
  /\ UNCHANGED <<mounted, unifiedLanes, mode, cleanupPending,
                 obtained, nStart, pendingGUM, attachTimers, pendingBlobs, inflight,
                 nTicks, nPosts, lastData, lastLabelled, newestLabelled>>

\* click on "Hand Gesture" / "Body Pose": setMode(m), then, if the call was
\* queued, the synchronous render with its effects (effects still pending
\* run first)
SetMode(m, eager) ==
  /\ mounted
  /\ LET renders == Enqueued(m, mode, UpdatesQueued, eager)
         commits == renders /\ unifiedLanes
         on1 == IF commits THEN isCameraOn \/ queuedOn ELSE isCameraOn
     IN /\ mode' = m
        /\ isCameraOn' = on1
        /\ prediction' = IF commits THEN NextPrediction ELSE prediction
        /\ queuedOn' = IF commits THEN FALSE ELSE queuedOn
        /\ queuedPrediction' = IF commits THEN <<>> ELSE queuedPrediction
        /\ srcObject' = SrcAfterRender(srcObject, mode, isCameraOn, m, on1)
        /\ intervals' = IF renders
                        THEN IntervalEffect(Flushed, mode, isCameraOn, m, on1)
                        ELSE intervals
        /\ pendingEffect' = IF renders THEN <<>> ELSE pendingEffect
  /\ lastEvent' = "setMode"
  /\ UNCHANGED <<mounted, unifiedLanes, cleanupPending, live, obtained, nStart, pendingGUM,
                 attachTimers, pendingBlobs, inflight, nTicks, nPosts,
                 lastData, lastLabelled, newestLabelled, attached>>

\* interval i fires: captureAndSendFrame up to canvas.toBlob(...); it returns
\* early when a ref is null or when canvas.getContext("2d") gives null
TickBackpressure(i, contextNull) ==
  /\ i \in 1..Len(intervals)
  /\ inflight = {} /\ pendingBlobs = {}
  /\ nTicks < MaxTicks
  /\ nTicks' = nTicks + 1
  /\ pendingBlobs' = IF mounted /\ ~contextNull
                     THEN pendingBlobs \cup {[seq |-> nTicks + 1,
                                              closureMode |-> intervals[i],
                                              tickMode |-> mode]}
                     ELSE pendingBlobs
  /\ lastEvent' = "tick"
  /\ UNCHANGED <<mounted, unifiedLanes, prediction, isCameraOn, mode, queuedOn, queuedPrediction,
                 pendingEffect, cleanupPending, srcObject, live, obtained, nStart,
                 pendingGUM, attachTimers, intervals, inflight, nPosts,
                 lastData, lastLabelled, newestLabelled, attached>>
Tick(i, contextNull) ==
  /\ i \in 1..Len(intervals)
  /\ nTicks < MaxTicks
  /\ nTicks' = nTicks + 1
  /\ pendingBlobs' = IF mounted /\ ~contextNull
                     THEN pendingBlobs \cup {[seq |-> nTicks + 1,
                                              closureMode |-> intervals[i],
                                              tickMode |-> mode]}
                     ELSE pendingBlobs
  /\ lastEvent' = "tick"
  /\ UNCHANGED <<mounted, unifiedLanes, prediction, isCameraOn, mode, queuedOn, queuedPrediction,
                 pendingEffect, cleanupPending, srcObject, live, obtained, nStart,
                 pendingGUM, attachTimers, intervals, inflight, nPosts,
                 lastData, lastLabelled, newestLabelled, attached>>

\* the toBlob callback runs: if (blob) fetch(endpoint, POST)
BlobCallback(b, hasBlob) ==
  /\ b \in pendingBlobs
  /\ pendingBlobs' = pendingBlobs \ {b}
  /\ inflight' = IF hasBlob
                 THEN inflight \cup {[seq |-> b.seq,
                                      endpoint |-> EndpointOf(b.closureMode),
                                      tickMode |-> b.tickMode]}
                 ELSE inflight
  /\ nPosts' = IF hasBlob THEN nPosts + 1 ELSE nPosts
  /\ lastEvent' = IF hasBlob THEN "post" ELSE "noblob"
  /\ UNCHANGED <<mounted, unifiedLanes, prediction, isCameraOn, mode, queuedOn, queuedPrediction,
                 pendingEffect, cleanupPending, srcObject, live, obtained, nStart,
                 pendingGUM, attachTimers, intervals, nTicks,
                 lastData, lastLabelled, newestLabelled, attached>>

\* setPrediction(v) with the queue q of setPrediction calls not rendered yet
QueueOne(q, v, eager) ==
  IF Enqueued(v, prediction, q # <<>> \/ queuedOn, eager) THEN <<v>> ELSE q

\* if (data.hand_gesture) setPrediction(h); if (data.body_pose) setPrediction(b):
\* the calls are queued one after the other ("" stands for an absent or empty field)
QueueAfterHandWins(h, b, eager) ==
  LET q1 == IF b # "" THEN QueueOne(queuedPrediction, b, eager) ELSE queuedPrediction
      q2 == IF h # "" THEN QueueOne(q1, h, eager) ELSE q1
  IN IF mounted THEN q2 ELSE queuedPrediction
QueueAfter(h, b, eager) ==
  LET q1 == IF h # "" THEN QueueOne(queuedPrediction, h, eager) ELSE queuedPrediction
      q2 == IF b # "" THEN QueueOne(q1, b, eager) ELSE q1
  IN IF mounted THEN q2 ELSE queuedPrediction

\* fetch resolves and response.json() parses to data with the fields h and b
\* ("" stands for an absent or empty field)
ResponseOkInOrder(r, h, b, eager) ==
  /\ r \in inflight
  /\ inflight' = inflight \ {r}
  /\ queuedPrediction' = IF r.seq >= newestLabelled THEN QueueAfter(h, b, eager)
                         ELSE queuedPrediction
  /\ lastData' = <<h, b>>
  /\ lastLabelled' = IF h # "" \/ b # ""
                     THEN [seq |-> r.seq, label |-> IF b # "" THEN b ELSE h]
                     ELSE lastLabelled
  /\ newestLabelled' = IF (h # "" \/ b # "") /\ r.seq > newestLabelled
                       THEN r.seq ELSE newestLabelled
  /\ lastEvent' = "ok"
  /\ UNCHANGED <<mounted, unifiedLanes, prediction, isCameraOn, mode, queuedOn, pendingEffect,
                 cleanupPending, srcObject, live, obtained, nStart, pendingGUM,
                 attachTimers, intervals, pendingBlobs, nTicks, nPosts, attached>>
ResponseOk(r, h, b, eager) ==
  /\ r \in inflight
  /\ inflight' = inflight \ {r}
  /\ queuedPrediction' = QueueAfter(h, b, eager)
  /\ lastData' = <<h, b>>
  /\ lastLabelled' = IF h # "" \/ b # ""
                     THEN [seq |-> r.seq, label |-> IF b # "" THEN b ELSE h]
                     ELSE lastLabelled
  /\ newestLabelled' = IF (h # "" \/ b # "") /\ r.seq > newestLabelled
                       THEN r.seq ELSE newestLabelled
  /\ lastEvent' = "ok"
  /\ UNCHANGED <<mounted, unifiedLanes, prediction, isCameraOn, mode, queuedOn, pendingEffect,
                 cleanupPending, srcObject, live, obtained, nStart, pendingGUM,
                 attachTimers, intervals, pendingBlobs, nTicks, nPosts, attached>>

\* fetch rejects, or response.json() throws: catch -> console.error
ResponseFailRetry(r) ==
  /\ r \in inflight
  /\ nPosts' = nPosts + 1
  /\ lastEvent' = "fail"
  /\ UNCHANGED <<mounted, unifiedLanes, prediction, isCameraOn, mode, queuedOn, queuedPrediction,
                 pendingEffect, cleanupPending, srcObject, live, obtained, nStart,
                 pendingGUM, attachTimers, intervals, pendingBlobs, inflight, nTicks,
                 lastData, lastLabelled, newestLabelled, attached>>
ResponseFailReset(r) ==
  /\ r \in inflight
  /\ inflight' = inflight \ {r}
  /\ queuedPrediction' = IF mounted THEN <<"">> ELSE queuedPrediction
  /\ lastEvent' = "fail"
  /\ UNCHANGED <<mounted, unifiedLanes, prediction, isCameraOn, mode, queuedOn,
                 pendingEffect, cleanupPending, srcObject, live, obtained, nStart,
                 pendingGUM, attachTimers, intervals, pendingBlobs, nTicks, nPosts,
                 lastData, lastLabelled, newestLabelled, attached>>
ResponseFail(r) ==
  /\ r \in inflight
  /\ inflight' = inflight \ {r}
  /\ lastEvent' = "fail"
  /\ UNCHANGED <<mounted, unifiedLanes, prediction, isCameraOn, mode, queuedOn, queuedPrediction,
                 pendingEffect, cleanupPending, srcObject, live, obtained, nStart,
                 pendingGUM, attachTimers, intervals, pendingBlobs, nTicks, nPosts,
                 lastData, lastLabelled, newestLabelled, attached>>

\* the unmount is committed (effects still pending run first): the elements
\* are removed and React sets videoRef.current and canvasRef.current to null;
\* queued updates are dropped
UnmountCommit ==
  /\ mounted
  /\ mounted' = FALSE
  /\ cleanupPending' = TRUE
  /\ intervals' = Flushed
  /\ pendingEffect' = <<>>
  /\ queuedOn' = FALSE
  /\ queuedPrediction' = <<>>
  /\ srcObject' = None
  /\ attached' = None
  /\ lastEvent' = "unmount"
  /\ UNCHANGED <<unifiedLanes, prediction, isCameraOn, mode, live, obtained, nStart,
                 pendingGUM, attachTimers, pendingBlobs, inflight, nTicks, nPosts,
                 lastData, lastLabelled, newestLabelled>>

\* the passive effect cleanups of the unmount run: clearInterval(interval) and
\* closeCamera().  videoRef.current is null by now, so closeCamera stops
\* nothing, and its setIsCameraOn(false) has no effect on the unmounted component.
UnmountCleanup ==
  /\ cleanupPending
  /\ cleanupPending' = FALSE
  /\ intervals' = Cleanup(intervals, isCameraOn)
  /\ live' = IF mounted /\ srcObject # None THEN live \ {srcObject} ELSE live
  /\ lastEvent' = "unmountCleanup"
  /\ UNCHANGED <<mounted, unifiedLanes, prediction, isCameraOn, mode, queuedOn, queuedPrediction,
                 pendingEffect, srcObject, obtained, nStart, pendingGUM, attachTimers,
                 pendingBlobs, inflight, nTicks, nPosts, lastData, lastLabelled,
                 newestLabelled, attached>>

Next ==
  \/ StartCamera
  \/ \E eager \in BOOLEAN : GetUserMediaResolve(eager)
  \/ GetUserMediaReject
  \/ Render
  \/ FlushEffects
  \/ \E s \in StreamIds : AttachTimer(s)
  \/ CloseCamera
  \/ \E m \in Modes, eager \in BOOLEAN : SetMode(m, eager)
  \/ \E i \in 1..Len(intervals), contextNull \in BOOLEAN : Tick(i, contextNull)
  \/ \E b \in pendingBlobs, hasBlob \in BOOLEAN : BlobCallback(b, hasBlob)
  \/ \E r \in inflight, h \in HandLabels, b \in BodyLabels, eager \in BOOLEAN :
       ResponseOk(r, h, b, eager)
  \/ \E r \in inflight : ResponseFail(r)
  \/ UnmountCommit
  \/ UnmountCleanup

Spec == Init /\ [][Next]_vars

\* ---- properties ----

HandEndpoint == "http://localhost:8000/predict/hand/"
BodyEndpoint == "http://localhost:8000/predict/body/"

\* C1 as stated: at most one capture interval is ever active, an active
\* interval implies isCameraOn, and while the widget is mounted an interval is
\* active exactly when isCameraOn is true.
C1_Original ==
  /\ Len(intervals) <= 1
  /\ (Len(intervals) = 1 => isCameraOn)
  /\ (mounted => (isCameraOn <=> Len(intervals) = 1))
\* C1 amended: at most one capture interval is ever active, an active interval
\* implies isCameraOn, and while the widget is mounted and the interval effect
\* of the last render has run, an interval is active exactly when isCameraOn
\* is true.
C1_OneIntervalOnceEffectsRan ==
  /\ Len(intervals) <= 1
  /\ (Len(intervals) = 1 => isCameraOn)
  /\ ((mounted /\ pendingEffect = <<>>) => (isCameraOn <=> Len(intervals) = 1))
\* the effect re-ran on a mode change while the camera is on, after a tick
C1_Witness ==
  /\ lastEvent = "setMode" /\ isCameraOn /\ mode = "body"
  /\ intervals = <<"body">> /\ nTicks >= 1 /\ pendingEffect = <<>>

\* C2 as stated: once a response is parsed, prediction is body_pose if
\* non-empty, else hand_gesture if non-empty, else what it was.
C2_Original ==
  [][ (lastEvent' = "ok" /\ mounted) =>
        LET h == lastData'[1]
            b == lastData'[2]
        IN prediction' = (IF b # "" THEN b ELSE IF h # "" THEN h ELSE prediction) ]_vars
\* C2 amended: a parsed response queues prediction := body_pose if non-empty,
\* else hand_gesture if non-empty, else nothing, and leaves prediction as it
\* is; prediction changes only when React renders the queued updates (in its
\* later render task, or in the render of a click that commits them), to the
\* value queued last, and the rendered text is then that value, or "N/A" when
\* it is empty.
C2_PredictionQueuedThenRendered ==
  [][ /\ (lastEvent' = "ok" /\ mounted) =>
           LET h == lastData'[1]
               b == lastData'[2]
           IN /\ NextPrediction' =
                   (IF b # "" THEN b ELSE IF h # "" THEN h ELSE NextPrediction)
              /\ prediction' = prediction
      /\ lastEvent' = "render" =>
           /\ prediction' = NextPrediction
           /\ queuedPrediction' = <<>>
           /\ Rendered(prediction') =
                (IF NextPrediction = "" THEN "N/A" ELSE NextPrediction)
      /\ prediction' # prediction =>
           /\ lastEvent' \in {"render", "setMode", "close"}
           /\ prediction' = NextPrediction
           /\ queuedPrediction' = <<>>
      /\ lastEvent' \notin {"ok", "unmount"} =>
           NextPrediction' = NextPrediction ]_vars
\* a response carrying both fields was parsed and rendered: the body pose is shown
C2_Witness ==
  /\ lastEvent = "render" /\ mounted
  /\ lastData = <<"h1", "b1">> /\ prediction = "b1" /\ Rendered(prediction) = "b1"

\* C3: a rejected fetch or an unparsable body changes none of prediction, mode,
\* isCameraOn, queues no update, stops no stream, detaches nothing and leaves
\* the interval (and a pending interval effect) as it is.
C3_FailureOnlyLogs ==
  [][ lastEvent' = "fail" =>
        UNCHANGED <<prediction, mode, isCameraOn, queuedPrediction, queuedOn,
                    pendingEffect, live, srcObject, intervals>> ]_vars
\* a request failed while the camera is on, showing a stream and a label
C3_Witness ==
  /\ lastEvent = "fail" /\ mounted /\ isCameraOn /\ Len(intervals) = 1
  /\ prediction # "" /\ srcObject # None /\ srcObject \in live

\* C4: the POSTs issued never outnumber the ticks fired, and every request in
\* flight stems from its own tick, whose toBlob callback has been consumed.
C4_PostsNeverExceedTicks ==
  /\ nPosts <= nTicks
  /\ \A r \in inflight :
       /\ r.seq \in 1..nTicks
       /\ \A b \in pendingBlobs : b.seq # r.seq
  /\ \A r1, r2 \in inflight : r1.seq = r2.seq => r1 = r2
\* every tick was posted, a request failed, and nothing was sent again
C4_Witness ==
  /\ lastEvent = "fail" /\ nTicks >= 2 /\ nPosts = nTicks
  /\ inflight = {} /\ pendingBlobs = {}

\* C5: whatever is outstanding, a tick of the active interval of the mounted
\* widget can capture a new frame (up to the bound of the model) and a pending
\* toBlob callback can post its frame.
C5_NoBackpressure ==
  /\ (mounted /\ Len(intervals) >= 1 /\ nTicks < MaxTicks)
        => ENABLED (\E i \in 1..Len(intervals) :
                      Tick(i, FALSE) /\ pendingBlobs' # pendingBlobs)
  /\ pendingBlobs # {}
        => ENABLED (\E b \in pendingBlobs : BlobCallback(b, TRUE))
\* as many requests in flight as ticks were allowed, camera still on
C5_Witness ==
  /\ Cardinality(inflight) >= 2 /\ Cardinality(inflight) = nTicks
  /\ mounted /\ isCameraOn /\ Len(intervals) = 1

\* C6 as stated: the prediction shown is always the label of the labelled
\* response that arrived last.
C6_Original ==
  mounted => prediction = lastLabelled.label
\* C6 amended: the prediction shown once the queued setPrediction calls are
\* rendered is the label of the labelled response that arrived last, whatever
\* the order in which the frames were sent.
C6_LastArrivedWins ==
  mounted => NextPrediction = lastLabelled.label
\* the response to an older frame arrived after that of a newer one and is shown
C6_Witness ==
  /\ lastEvent = "render" /\ mounted
  /\ lastLabelled.seq >= 1 /\ lastLabelled.seq < newestLabelled
  /\ queuedPrediction = <<>> /\ prediction = lastLabelled.label

\* C7: once closeCamera has run (button or unmount cleanup) every obtained
\* stream is stopped, the video element carries no stream and, for the button,
\* isCameraOn is false.
C7_CloseReleasesCamera ==
  lastEvent \in {"close", "unmountCleanup"} =>
    /\ live = {}
    /\ srcObject = None
    /\ (lastEvent = "close" => ~isCameraOn)

\* C8: while mounted, from the attach of a stream until closeCamera the video
\* element behind videoRef carries that stream.
C8_StreamStaysAttached ==
  (mounted /\ attached # None) => srcObject = attached

\* C9: every POST goes to the endpoint of the mode selected when its tick
\* fired, and the closure of the active interval never holds a stale mode.
C9_EndpointOfTickMode ==
  /\ \A r \in inflight : r.endpoint = EndpointOf(r.tickMode)
  /\ \A b \in pendingBlobs : b.closureMode = b.tickMode
  /\ \A i \in 1..Len(intervals) : intervals[i] = mode
\* a body-mode frame and a later hand-mode frame are in flight to their endpoints
C9_Witness ==
  \E r1, r2 \in inflight :
    /\ r1.seq < r2.seq
    /\ r1.tickMode = "body" /\ r1.endpoint = BodyEndpoint
    /\ r2.tickMode = "hand" /\ r2.endpoint = HandEndpoint

====
